---------------------------- MODULE Spec2Model ----------------------------
(***************************************************************************)
(* Model of the review-record detail page (static/web_patient/             *)
(* review_record_detail.js): the virtualised list with its layout table,   *)
(* the window resolver, the paginated fetch controller with its rollback,   *)
(* and the image viewer.  Every JavaScript function of the page is an      *)
(* operator on a                                                           *)
(* "world" record w = [st, el, rq, raf, nid]:                              *)
(*   st   the page's `state` object,                                       *)
(*   el   what the page reads from and writes to the DOM (`els`),          *)
(*   rq   the fetches in flight, each with the variables its promise       *)
(*        handlers close over,                                             *)
(*   raf  the callbacks handed to requestAnimationFrame, oldest first,     *)
(*   nid  the identity the next AbortController / fetch gets.              *)
(* Array indices are 0-based as in the source; Get reads a sequence at a   *)
(* 0-based index.                                                          *)
(***************************************************************************)
EXTENDS Integers, Sequences, FiniteSets, Bags, TLC

VARIABLES state, els, requests, rafQueue, nextId, hist

vars == <<state, els, requests, rafQueue, nextId, hist>>

-----------------------------------------------------------------------------
(* Bounds of the model *)

\* fetches issued before the run is cut
MaxReq == 3
\* animation-frame callbacks the environment may leave queued
MaxRaf == 1
\* scroll and resize events that arrive between two animation frames
MaxBurst == 2
\* image loads of the viewer the network leaves unsettled at one time
MaxImgLoads == 2
\* ws-open-sidebar events the run lets the sidebar script dispatch
MaxDispatch == 2
\* groups the server holds for each month
TotalA == 25
TotalB == 7
TotalC == 0

(* Constants of the program *)

pageSize == 10
gap == 8
overscan == 6
lookBehindPx == 200
lookAheadPx == 400
threshold == 600
minThumb == 56
gridColumns == 3
defaultWidth == 375
swipeMin == 40
\* the empty string as an image URL
NoUrl == 0
\* web_sales_mobile.js
EDGE_OPEN_PX == 20
TRIGGER_DX == 70
TRIGGER_DY == 30

-----------------------------------------------------------------------------
(* Environment: the months of the picker, the server's data, the viewports *)

MonthA == "2024-01"
MonthB == "2024-02"
MonthC == "2024-03"
Months == {MonthA, MonthB, MonthC}

Viewports == {[w |-> 375, h |-> 667], [w |-> 768, h |-> 1024]}
InitialViewport == [w |-> 375, h |-> 667]

Max(a, b) == IF a >= b THEN a ELSE b
Min(a, b) == IF a <= b THEN a ELSE b
Abs(a) == IF a < 0 THEN -a ELSE a
CeilDiv(a, b) == (a + b - 1) \div b

ServerTotal(m) ==
  CASE m = MonthA -> TotalA
    [] m = MonthB -> TotalB
    [] OTHER -> TotalC

MonthSeed(m) ==
  CASE m = MonthA -> 0
    [] m = MonthB -> 3
    [] OTHER -> 5

\* the URL of the j-th image of the i-th group of month m, as a number that
\* no other image has
ImageUrl(m, i, j) == (MonthSeed(m) * 100 + i) * 10 + j

\* the i-th record group of month m: between 0 and 7 images
ServerGroup(m, i) ==
  [report_date |-> <<m, i>>,
   image_urls |-> [j \in 1..((i + MonthSeed(m)) % 8) |-> ImageUrl(m, i, j)]]

\* the JSON body of a successful response: total and the page's slice
ServerResponse(url) ==
  LET T == ServerTotal(url.report_month)
      lo == (url.page_num - 1) * url.page_size + 1
      hi == Min(url.page_num * url.page_size, T)
  IN [total |-> T,
      list |-> [k \in 1..Max(0, hi - lo + 1) |-> ServerGroup(url.report_month, lo + k - 1)]]

-----------------------------------------------------------------------------
(* Helpers for JavaScript arrays *)

\* arr[i] || 0 : a hole or an index past the end reads as 0
Get(arr, i) == IF i + 1 \in DOMAIN arr THEN arr[i + 1] ELSE 0

NoReq == [id |-> 0]
NoFields == [none |-> TRUE]

-----------------------------------------------------------------------------
(* DOM helpers *)

\* the browser keeps scrollTop within the scrollable extent of the container
ClampScroll(el) ==
  [el EXCEPT !.scrollTop = Min(@, Max(0, el.containerHeight - el.clientHeight))]

\* els.virtualContainer.style.height = ...
setContainerHeight(w, px) ==
  [w EXCEPT !.el = ClampScroll([@ EXCEPT !.containerHeight = px])]

\* showToast(message, type): one more toast appended to els.toast.  el.toasts
\* lists the toasts the current handler has shown (each is removed by its
\* own timer and touches nothing else)
showToast(w, message) ==
  [w EXCEPT !.el.toasts = Append(@, message)]

\* setLoading with the flag inverted
setLoading_inverted(w, loading) ==
  [w EXCEPT !.st.isLoading = ~loading, !.el.spinner = loading]

\* setLoading that never raises the flag: it only shows or hides the spinner
setLoading_flagOff(w, loading) ==
  [w EXCEPT !.st.isLoading = FALSE, !.el.spinner = loading]

setLoading(w, loading) ==
  [w EXCEPT !.st.isLoading = loading, !.el.spinner = loading]

setEmptyVisible(w, visible) == [w EXCEPT !.el.emptyVisible = visible]

setNoMoreVisible(w, visible) == [w EXCEPT !.el.noMoreVisible = visible]

\* isAllLoaded that asks for more groups than the total
isAllLoaded_strict(w) ==
  w.st.total > 0 /\ Len(w.st.groups) > w.st.total

isAllLoaded(w) ==
  w.st.total > 0 /\ Len(w.st.groups) >= w.st.total

-----------------------------------------------------------------------------
(* Layout engine *)

\* computeItemHeight that takes the whole container width for the grid
computeItemHeight_noPadding(group, w) ==
  LET images == group.image_urls
      rows == Max(1, CeilDiv(Len(images), gridColumns))
      containerWidth == w.el.clientWidth
      gridWidth == Max(0, containerWidth)
      thumb == Max(minThumb, (gridWidth - gap * 2) \div gridColumns)
      gridHeight == rows * thumb + (rows - 1) * gap
  IN 16 + 24 + 12 + gridHeight + 16

computeItemHeight(group, w) ==
  LET images == group.image_urls
      rows == Max(1, CeilDiv(Len(images), gridColumns))
      containerWidth == w.el.clientWidth
      gridWidth == Max(0, containerWidth - 32)
      thumb == Max(minThumb, (gridWidth - gap * 2) \div gridColumns)
      gridHeight == rows * thumb + (rows - 1) * gap
  IN 16 + 24 + 12 + gridHeight + 16

RECURSIVE layoutLoop(_, _, _, _, _)
\* the for loop of recomputeLayout from index i on: heights and offsets
layoutLoop(w, groups, heights, offsets, i) ==
  IF i >= Len(groups) THEN [heights |-> heights, offsets |-> offsets]
  ELSE LET h == computeItemHeight(groups[i + 1], w)
           heights1 == IF i < Len(heights) THEN [heights EXCEPT ![i + 1] = h]
                       ELSE heights \o [k \in 1..(i - Len(heights)) |-> 0] \o <<h>>
           o == IF i = 0 THEN 0 ELSE Get(offsets, i - 1) + Get(heights1, i - 1)
           offsets1 == IF i < Len(offsets) THEN [offsets EXCEPT ![i + 1] = o]
                       ELSE offsets \o [k \in 1..(i - Len(offsets)) |-> 0] \o <<o>>
       IN layoutLoop(w, groups, heights1, offsets1, i + 1)

\* recomputeLayout that leaves totalHeight and the container's height as
\* they were
recomputeLayout_staleTotal(w, fromIndex) ==
  LET start == Max(0, fromIndex)
      done == layoutLoop(w, w.st.groups, w.st.heights, w.st.offsets, start)
  IN [w EXCEPT !.st.heights = done.heights, !.st.offsets = done.offsets]

recomputeLayout(w, fromIndex) ==
  LET start == Max(0, fromIndex)
      done == layoutLoop(w, w.st.groups, w.st.heights, w.st.offsets, start)
      lastIndex == Len(w.st.groups) - 1
      totalHeight2 == IF lastIndex >= 0
                      THEN Get(done.offsets, lastIndex) + Get(done.heights, lastIndex)
                      ELSE 0
  IN setContainerHeight(
       [w EXCEPT !.st.heights = done.heights, !.st.offsets = done.offsets,
                 !.st.totalHeight = totalHeight2],
       totalHeight2)

-----------------------------------------------------------------------------
(* Window resolver *)

RECURSIVE bsearch(_, _, _, _)
\* the while loop of findIndexByScrollTop, from (low, high) to its answer
bsearch(w, scrollTop, low, high) ==
  IF low > high
  THEN Max(0, Min(low, Len(w.st.groups) - 1))
  ELSE LET mid == (low + high) \div 2
           start == Get(w.st.offsets, mid)
           end == start + Get(w.st.heights, mid)
       IN IF scrollTop >= end THEN bsearch(w, scrollTop, mid + 1, high)
          ELSE IF scrollTop < start THEN bsearch(w, scrollTop, low, mid - 1)
          ELSE mid

\* findIndexByScrollTop with the intervals (start, end] where the source
\* has [start, end)
findIndexByScrollTop_gt(w, scrollTop) ==
  bsearch(w, scrollTop - 1, 0, Len(w.st.groups) - 1)

findIndexByScrollTop(w, scrollTop) ==
  bsearch(w, scrollTop, 0, Len(w.st.groups) - 1)

\* renderVirtual with the overscan subtracted at the far end
renderVirtual_shortEnd(w) ==
  LET n == Len(w.st.groups)
  IN IF n = 0
     THEN [w EXCEPT !.el.rendered = [from |-> 0, to |-> -1, offsetY |-> @.offsetY]]
     ELSE LET scrollTop == w.el.scrollTop
              viewHeight == w.el.clientHeight
              startIndex == findIndexByScrollTop(w, Max(0, scrollTop - lookBehindPx))
              endIndex == findIndexByScrollTop(w, scrollTop + viewHeight + lookAheadPx)
              from == Max(0, startIndex - overscan)
              to == Min(n - 1, endIndex - overscan)
              offsetY == Get(w.st.offsets, from)
          IN [w EXCEPT !.el.rendered = [from |-> from, to |-> to, offsetY |-> offsetY]]

\* what renderVirtual leaves in els.virtualInner: the materialised index
\* range (to < from: nothing) and the translateY of the block
renderVirtual(w) ==
  LET n == Len(w.st.groups)
  IN IF n = 0
     THEN [w EXCEPT !.el.rendered = [from |-> 0, to |-> -1, offsetY |-> @.offsetY]]
     ELSE LET scrollTop == w.el.scrollTop
              viewHeight == w.el.clientHeight
              startIndex == findIndexByScrollTop(w, Max(0, scrollTop - lookBehindPx))
              endIndex == findIndexByScrollTop(w, scrollTop + viewHeight + lookAheadPx)
              from == Max(0, startIndex - overscan)
              to == Min(n - 1, endIndex + overscan)
              offsetY == Get(w.st.offsets, from)
          IN [w EXCEPT !.el.rendered = [from |-> from, to |-> to, offsetY |-> offsetY]]

-----------------------------------------------------------------------------
(* Fetch controller *)

\* the query of the request: URLSearchParams of buildApiUrl
buildApiUrl(w) ==
  [category_code |-> w.st.categoryCode,
   report_month |-> w.st.reportMonth,
   page_num |-> w.st.pageNum,
   page_size |-> w.st.pageSize]

\* abort() marks the fetch of the current controller; its promise then
\* rejects with an AbortError
cancelInFlight(w) ==
  IF w.st.abortController # 0
  THEN [w EXCEPT
         !.rq = {IF r.id = w.st.abortController
                 THEN [r EXCEPT !.aborted = TRUE] ELSE r : r \in w.rq},
         !.st.abortController = 0]
  ELSE w

\* the list fields of state, as a record
ListFields(w) ==
  [groups |-> w.st.groups, heights |-> w.st.heights, offsets |-> w.st.offsets,
   totalHeight |-> w.st.totalHeight, total |-> w.st.total, pageNum |-> w.st.pageNum]

\* loadPage without the check of the category code
loadPage_noCategoryCheck(w, reset) ==
  IF w.st.isLoading THEN w
  ELSE
    LET w1 == IF reset THEN [w EXCEPT !.st.pageNum = 1] ELSE w
        w2 == cancelInFlight(w1)
        w3 == [w2 EXCEPT !.st.abortController = w.nid, !.nid = @ + 1]
        url == buildApiUrl(w3)
        w4 == setEmptyVisible(
                setNoMoreVisible(
                  setLoading([w3 EXCEPT !.st.isLoading = TRUE], TRUE), FALSE), FALSE)
        req == [id |-> w.nid,
                reset |-> reset,
                url |-> url,
                aborted |-> FALSE,
                preserveGroups |-> w4.st.groups,
                preserveHeights |-> w4.st.heights,
                preserveOffsets |-> w4.st.offsets,
                preserveTotalHeight |-> w4.st.totalHeight,
                preserveTotal |-> w4.st.total]
    IN [w4 EXCEPT !.rq = @ \cup {req}]

\* loadPage({reset}) up to and including the call of fetch
loadPage(w, reset) ==
  IF w.st.isLoading THEN w
  ELSE IF w.st.categoryCode = "" THEN showToast(w, "missing category")
  ELSE
    LET w1 == IF reset THEN [w EXCEPT !.st.pageNum = 1] ELSE w
        w2 == cancelInFlight(w1)
        w3 == [w2 EXCEPT !.st.abortController = w.nid, !.nid = @ + 1]
        url == buildApiUrl(w3)
        w4 == setEmptyVisible(
                setNoMoreVisible(
                  setLoading([w3 EXCEPT !.st.isLoading = TRUE], TRUE), FALSE), FALSE)
        req == [id |-> w.nid,
                reset |-> reset,
                url |-> url,
                aborted |-> FALSE,
                preserveGroups |-> w4.st.groups,
                preserveHeights |-> w4.st.heights,
                preserveOffsets |-> w4.st.offsets,
                preserveTotalHeight |-> w4.st.totalHeight,
                preserveTotal |-> w4.st.total]
    IN [w4 EXCEPT !.rq = @ \cup {req}]

\* a .finally that leaves the loading flag and the controller as they are
finallyHandler_missing(w) == w

\* .finally(...)
finallyHandler(w) ==
  [setLoading(w, FALSE) EXCEPT !.st.isLoading = FALSE, !.st.abortController = 0]

\* the second .then(...) for a response with ok and success, then .finally
thenHandler(w, r, data) ==
  LET total == data.total
      list == data.list
      w1 == [w EXCEPT !.st.total = total]
      w2 == IF r.reset
            THEN renderVirtual(recomputeLayout(
                   [w1 EXCEPT !.st.groups = list, !.st.heights = <<>>,
                              !.st.offsets = <<>>, !.st.totalHeight = 0,
                              !.el.scrollTop = 0], 0))
            ELSE LET startIndex == Len(w1.st.groups)
                 IN renderVirtual(recomputeLayout(
                      [w1 EXCEPT !.st.groups = @ \o list], startIndex))
      w3 == IF w2.st.total = 0 THEN setEmptyVisible(w2, TRUE) ELSE w2
      w4 == IF isAllLoaded(w3) THEN setNoMoreVisible(w3, TRUE)
            ELSE [w3 EXCEPT !.st.pageNum = @ + 1]
      w5 == IF r.reset THEN [w4 EXCEPT !.raf = Append(@, "reportFirstRender")] ELSE w4
  IN finallyHandler(w5)

\* catchHandler that restores nothing: it only reports the error
catchHandler_noRollback(w, r, err) ==
  IF err = "AbortError" THEN finallyHandler(w)
  ELSE finallyHandler(showToast(renderVirtual(recomputeLayout(w, 0)), "load failed"))

\* .catch(err), then .finally
catchHandler(w, r, err) ==
  IF err = "AbortError" THEN finallyHandler(w)
  ELSE finallyHandler(showToast(renderVirtual(recomputeLayout(
         [w EXCEPT !.st.groups = r.preserveGroups,
                   !.st.heights = r.preserveHeights,
                   !.st.offsets = r.preserveOffsets,
                   !.st.totalHeight = r.preserveTotalHeight,
                   !.st.total = r.preserveTotal], 0)), "load failed"))

handleScroll(w) ==
  LET w1 == renderVirtual(w)
  IN IF w1.st.isLoading THEN w1
     ELSE IF isAllLoaded(w1) THEN w1
     ELSE LET bottom == w1.el.scrollTop + w1.el.clientHeight
          IN IF w1.st.totalHeight - bottom < threshold
             THEN loadPage(w1, FALSE)
             ELSE w1

\* the change handler that clears the viewer's images with the list
monthChange_clearsViewer(w, val) ==
  IF val = "" THEN [w EXCEPT !.el.monthPicker = val]
  ELSE loadPage(
         [w EXCEPT !.el.monthPicker = val, !.st.reportMonth = val,
                   !.el.monthDisplay = val,
                   !.st.groups = <<>>, !.st.heights = <<>>, !.st.offsets = <<>>,
                   !.st.totalHeight = 0, !.st.total = 0,
                   !.st.viewer.images = <<>>, !.st.viewer.index = 0,
                   !.el = ClampScroll(
                            [@ EXCEPT !.containerHeight = 0,
                                      !.rendered = [from |-> 0, to |-> -1,
                                                    offsetY |-> @.offsetY],
                                      !.noMoreVisible = FALSE,
                                      !.emptyVisible = FALSE])], TRUE)

\* the change handler of the month picker, for the value val
monthChange(w, val) ==
  IF val = "" THEN [w EXCEPT !.el.monthPicker = val]
  ELSE
    LET w1 == [w EXCEPT !.el.monthPicker = val,
                        !.st.reportMonth = val,
                        !.el.monthDisplay = val,
                        !.st.groups = <<>>, !.st.heights = <<>>,
                        !.st.offsets = <<>>, !.st.totalHeight = 0,
                        !.st.total = 0]
        w2 == setContainerHeight(w1, 0)
        w3 == [w2 EXCEPT !.el.rendered = [from |-> 0, to |-> -1, offsetY |-> @.offsetY]]
    IN loadPage(setEmptyVisible(setNoMoreVisible(w3, FALSE), FALSE), TRUE)

\* reportFirstRender without its firstRenderReported guard
reportFirstRender_everyTime(w) ==
  [w EXCEPT !.st.firstRenderReported = TRUE, !.el.firstRenderLogs = @ + 1]

reportFirstRender(w) ==
  IF w.st.firstRenderReported THEN w
  ELSE [w EXCEPT !.st.firstRenderReported = TRUE, !.el.firstRenderLogs = @ + 1]

\* one requestAnimationFrame callback
runCallback(w, cb) ==
  CASE cb = "handleScroll" -> handleScroll(w)
    [] cb = "renderVirtual" -> renderVirtual(w)
    [] OTHER -> reportFirstRender(w)

RECURSIVE runCallbacks(_, _)
\* the callbacks of one frame, in the order they were requested
runCallbacks(w, q) ==
  IF q = <<>> THEN w ELSE runCallbacks(runCallback(w, Head(q)), Tail(q))

\* one animation frame: the queued callbacks run, later requests wait
runFrame(w) ==
  runCallbacks([w EXCEPT !.raf = <<>>], w.raf)

-----------------------------------------------------------------------------
(* Image viewer.  el.imageLoads is the bag of the URLs of the Image objects  *)
(* renderViewerImage has created and whose load has not settled yet; the    *)
(* handlers of such an Image close over its URL only.                        *)

renderViewerImage(w) ==
  LET urls == w.st.viewer.images
      idx == w.st.viewer.index
  IN IF Len(urls) = 0
     THEN [w EXCEPT !.el.viewerLoadingText = "no images",
                    !.el.viewerLoadingHidden = FALSE,
                    !.el.viewerImageHidden = TRUE,
                    !.el.viewerIndexText = <<>>]
     ELSE [w EXCEPT !.el.viewerIndexText = <<idx + 1, Len(urls)>>,
                    !.el.viewerLoadingText = "loading",
                    !.el.viewerLoadingHidden = FALSE,
                    !.el.viewerImageHidden = TRUE,
                    !.el.imageLoads = @ (+) SetToBag({Get(urls, idx)})]

\* img.onload of the Image created for url
imgOnload(w, url) ==
  IF ~w.st.viewer.isOpen THEN w
  ELSE [w EXCEPT !.el.viewerImageSrc = url,
                 !.el.viewerImageHidden = FALSE,
                 !.el.viewerLoadingHidden = TRUE]

\* img.onerror of the Image created for url
imgOnerror(w, url) ==
  IF ~w.st.viewer.isOpen THEN w
  ELSE [w EXCEPT !.el.viewerLoadingText = "load failed, click to retry"]

\* openViewer that takes startIndex as it comes
openViewer_noClamp(w, urls, startIndex) ==
  renderViewerImage(
    [w EXCEPT !.st.viewer.images = urls,
              !.st.viewer.index = startIndex,
              !.st.viewer.isOpen = TRUE,
              !.el.viewerHidden = FALSE,
              !.el.bodyOverflow = "hidden"])

openViewer(w, urls, startIndex) ==
  renderViewerImage(
    [w EXCEPT !.st.viewer.images = urls,
              !.st.viewer.index = Max(0, Min(startIndex, Len(urls) - 1)),
              !.st.viewer.isOpen = TRUE,
              !.el.viewerHidden = FALSE,
              !.el.bodyOverflow = "hidden"])

closeViewer(w) ==
  [w EXCEPT !.st.viewer.isOpen = FALSE,
            !.el.viewerHidden = TRUE,
            !.el.bodyOverflow = "",
            !.el.viewerImageSrc = NoUrl]

prevImage(w) ==
  LET n == Len(w.st.viewer.images)
  IN IF n = 0 THEN w
     ELSE renderViewerImage([w EXCEPT !.st.viewer.index = (@ - 1 + n) % n])

\* nextImage that stops at the last image
nextImage_noWrap(w) ==
  LET n == Len(w.st.viewer.images)
  IN IF n = 0 THEN w
     ELSE renderViewerImage([w EXCEPT !.st.viewer.index = Min(@ + 1, n - 1)])

nextImage(w) ==
  LET n == Len(w.st.viewer.images)
  IN IF n = 0 THEN w
     ELSE renderViewerImage([w EXCEPT !.st.viewer.index = (@ + 1) % n])

\* the click handler of the thumbnail data-idx = imgIndex inside the card
\* data-group-index = groupIndex
thumbClick(w, groupIndex, imgIndex) ==
  LET urls == IF groupIndex + 1 \in DOMAIN w.st.groups
              THEN w.st.groups[groupIndex + 1].image_urls
              ELSE <<>>
  IN openViewer(w, urls, imgIndex)

\* touchstart on the viewer, with the list e.touches
touchStart(w, touches) ==
  IF Len(touches) # 1 THEN w
  ELSE [w EXCEPT !.st.viewer.touchStartX = touches[1].clientX,
                 !.st.viewer.touchStartY = touches[1].clientY]

\* touchend with the two directions exchanged
touchEnd_swapped(w, changedTouches) ==
  IF Len(changedTouches) # 1 THEN w
  ELSE LET dx == changedTouches[1].clientX - w.st.viewer.touchStartX
           dy == changedTouches[1].clientY - w.st.viewer.touchStartY
       IN IF Abs(dx) < swipeMin \/ Abs(dx) < Abs(dy) THEN w
          ELSE IF dx > 0 THEN nextImage(w)
          ELSE prevImage(w)

\* touchend on the viewer, with the list e.changedTouches
touchEnd(w, changedTouches) ==
  IF Len(changedTouches) # 1 THEN w
  ELSE LET dx == changedTouches[1].clientX - w.st.viewer.touchStartX
           dy == changedTouches[1].clientY - w.st.viewer.touchStartY
       IN IF Abs(dx) < swipeMin \/ Abs(dx) < Abs(dy) THEN w
          ELSE IF dx > 0 THEN prevImage(w)
          ELSE nextImage(w)

-----------------------------------------------------------------------------
(* The state machine.  hist is a history variable, read by no handler:      *)
(*   clean      a month change (or init) has issued its reset request and   *)
(*              no fetch has failed since,                                   *)
(*   k          the successful responses applied since the last month       *)
(*              change,                                                      *)
(*   changeRid  the request a month change has just issued, while it is in  *)
(*              flight (0: none),                                            *)
(*   before     the list fields of the moment before that month change.     *)

\* the world a handler starts in: nothing shown by it yet
World ==
  [st |-> state, el |-> [els EXCEPT !.toasts = <<>>], rq |-> requests,
   raf |-> rafQueue, nid |-> nextId]

\* the page before init() has run, for a category code, the month the picker
\* shows and a viewport
Blank(cat, month, vp) ==
  [st |-> [categoryCode |-> cat, reportMonth |-> month, pageNum |-> 1,
           pageSize |-> pageSize, total |-> 0, groups |-> <<>>, heights |-> <<>>,
           offsets |-> <<>>, totalHeight |-> 0, isLoading |-> FALSE,
           abortController |-> 0, firstRenderReported |-> FALSE,
           viewer |-> [isOpen |-> FALSE, images |-> <<>>, index |-> 0,
                       touchStartX |-> 0, touchStartY |-> 0]],
   el |-> [scrollTop |-> 0, clientWidth |-> vp.w, clientHeight |-> vp.h,
           containerHeight |-> 0, monthPicker |-> month, monthDisplay |-> month,
           rendered |-> [from |-> 0, to |-> -1, offsetY |-> 0],
           spinner |-> FALSE, emptyVisible |-> FALSE, noMoreVisible |-> FALSE,
           toasts |-> <<>>, firstRenderLogs |-> 0,
           viewerHidden |-> TRUE, bodyOverflow |-> "",
           viewerImageSrc |-> NoUrl, viewerImageHidden |-> TRUE,
           viewerLoadingText |-> "", viewerLoadingHidden |-> TRUE,
           viewerIndexText |-> <<>>, imageLoads |-> EmptyBag],
   rq |-> {},
   raf |-> <<>>,
   nid |-> 1]

\* init(): initDom, bindEvents, loadPage({reset: true})
init(cat, month, vp) == loadPage(Blank(cat, month, vp), TRUE)

\* a handler runs and leaves the world w; the run is cut once more than
\* MaxReq fetches have been issued
Become(w) ==
  /\ nextId <= MaxReq + 1
  /\ state' = w.st
  /\ els' = w.el
  /\ requests' = w.rq
  /\ rafQueue' = w.raf
  /\ nextId' = w.nid

\* positions the user can scroll to: the top and the bottom
ScrollTargets(w) ==
  LET maxScroll == Max(0, w.el.containerHeight - w.el.clientHeight)
  IN {0, maxScroll}

Init ==
  \E cat \in {"", "blood_pressure"}, month \in {MonthA}, vp \in {InitialViewport} :
    LET w == init(cat, month, vp)
    IN /\ state = w.st
       /\ els = w.el
       /\ requests = w.rq
       /\ rafQueue = w.raf
       /\ nextId = w.nid
       /\ hist = [clean |-> (w.rq # {}), k |-> 0, changeRid |-> 0, before |-> NoFields]

\* a scroll event: the position has changed, handleScroll is requested for
\* the next frame
ScrollEvt ==
  \E s \in ScrollTargets(World) :
    /\ Len(rafQueue) < MaxRaf
    /\ Become([World EXCEPT !.el.scrollTop = s, !.raf = Append(@, "handleScroll")])
    /\ UNCHANGED hist

\* a resize event: the viewport has changed, renderVirtual is requested for
\* the next frame
ResizeEvt ==
  \E vp \in Viewports :
    /\ vp.w # els.clientWidth
    /\ Len(rafQueue) < MaxRaf
    /\ Become([World EXCEPT
                 !.el = ClampScroll([@ EXCEPT !.clientWidth = vp.w, !.clientHeight = vp.h]),
                 !.raf = Append(@, "renderVirtual")])
    /\ UNCHANGED hist

\* an animation frame
Frame ==
  /\ rafQueue # <<>>
  /\ Become(runFrame(World))
  /\ UNCHANGED hist

\* the user picks another value in the month picker
MonthChangeEvt ==
  \E val \in Months \cup {""} :
    /\ val # els.monthPicker
    /\ LET w2 == monthChange(World, val)
           issued == w2.nid # nextId
       IN /\ Become(w2)
          /\ hist' = IF val = "" THEN hist
                     ELSE [clean |-> issued, k |-> 0,
                           changeRid |-> IF issued THEN nextId ELSE 0,
                           before |-> IF issued THEN ListFields(World) ELSE NoFields]

\* a fetch resolves with an ok response whose body says success
FetchResolves ==
  \E r \in requests :
    /\ ~r.aborted
    /\ Become(thenHandler([World EXCEPT !.rq = @ \ {r}], r, ServerResponse(r.url)))
    /\ hist' = [hist EXCEPT !.k = @ + 1,
                            !.changeRid = 0, !.before = NoFields]

\* a fetch rejects: aborted, or a transport error, a body that is no JSON, a
\* response that is not ok or says success: false
FetchRejects ==
  \E r \in requests :
    LET err == IF r.aborted THEN "AbortError" ELSE "Error"
    IN /\ Become(catchHandler([World EXCEPT !.rq = @ \ {r}], r, err))
       /\ hist' = [hist EXCEPT !.clean = FALSE, !.changeRid = 0, !.before = NoFields]

Next ==
  \/ ScrollEvt
  \/ ResizeEvt
  \/ Frame
  \/ MonthChangeEvt
  \/ FetchResolves
  \/ FetchRejects

Spec == Init /\ [][Next]_vars

-----------------------------------------------------------------------------
(* The layout engine and the window resolver on their own: the same handlers,
   each event run together with the animation frame it asks for, every fetch
   answered with success, and the user scrolling to the start of any group *)

InitLayout ==
  \E vp \in Viewports :
    LET w == init("blood_pressure", MonthA, vp)
    IN /\ state = w.st
       /\ els = w.el
       /\ requests = w.rq
       /\ rafQueue = w.raf
       /\ nextId = w.nid
       /\ hist = [clean |-> TRUE, k |-> 0, changeRid |-> 0, before |-> NoFields]

\* positions the user can scroll to: the start of every third group, and the
\* bottom
LayoutScrollTargets(w) ==
  LET maxScroll == Max(0, w.el.containerHeight - w.el.clientHeight)
  IN {Min(w.st.offsets[i], maxScroll) : i \in {j \in 1..Len(w.st.offsets) : j % 3 = 1}}
     \cup {maxScroll}

LayoutScroll ==
  \E s \in LayoutScrollTargets(World) :
    /\ Become(handleScroll([World EXCEPT !.el.scrollTop = s]))
    /\ UNCHANGED hist

LayoutResize ==
  \E vp \in Viewports :
    /\ vp.w # els.clientWidth
    /\ Become(renderVirtual(
         [World EXCEPT
            !.el = ClampScroll([@ EXCEPT !.clientWidth = vp.w, !.clientHeight = vp.h])]))
    /\ UNCHANGED hist

LayoutMonthChange ==
  \E val \in Months :
    /\ val # els.monthPicker
    /\ Become(monthChange(World, val))
    /\ UNCHANGED hist

LayoutResolves ==
  \E r \in requests :
    /\ ~r.aborted
    /\ Become(runFrame(thenHandler([World EXCEPT !.rq = @ \ {r}], r, ServerResponse(r.url))))
    /\ UNCHANGED hist

NextLayout ==
  \/ LayoutScroll
  \/ LayoutResize
  \/ LayoutMonthChange
  \/ LayoutResolves

SpecLayout == InitLayout /\ [][NextLayout]_vars

-----------------------------------------------------------------------------
(* Bursts of events: up to MaxBurst scroll and resize events arrive between
   two animation frames, while the list loads its pages. *)

ScrollBurst ==
  \E s \in ScrollTargets(World) :
    /\ s # els.scrollTop
    /\ Len(rafQueue) < MaxBurst
    /\ Become([World EXCEPT !.el.scrollTop = s, !.raf = Append(@, "handleScroll")])
    /\ UNCHANGED hist

ResizeBurst ==
  \E vp \in Viewports :
    /\ vp.w # els.clientWidth
    /\ Len(rafQueue) < MaxBurst
    /\ Become([World EXCEPT
                 !.el = ClampScroll([@ EXCEPT !.clientWidth = vp.w, !.clientHeight = vp.h]),
                 !.raf = Append(@, "renderVirtual")])
    /\ UNCHANGED hist

NextBurst ==
  \/ ScrollBurst
  \/ ResizeBurst
  \/ Frame
  \/ FetchResolves

SpecBurst == InitLayout /\ [][NextBurst]_vars

-----------------------------------------------------------------------------
(* The image viewer over the first page of the list: the user opens it on a
   thumbnail of the rendered window, navigates, swipes, retries and closes
   it, and the image loads settle in any order.  The viewer covers the page
   while it is open: thumbnails are tapped only when it is closed, and its
   own controls only when it is open. *)

\* the thumbnails the user taps: the first one of the first and of the third
\* card of the rendered window
ThumbTargets(w) ==
  LET r == w.el.rendered
  IN {t \in {r.from, r.from + 2} \X {0} :
        /\ t[1] <= r.to
        /\ t[1] + 1 \in DOMAIN w.st.groups
        /\ Len(w.st.groups[t[1] + 1].image_urls) > 0}

\* e.touches of a touchstart: one finger, or two
TouchStarts ==
  {<<[clientX |-> 100, clientY |-> 100]>>,
   <<[clientX |-> 100, clientY |-> 100], [clientX |-> 200, clientY |-> 100]>>}

\* e.changedTouches of a touchend: one finger lifted around the thresholds of
\* the gesture, or two
TouchEnds ==
  {<<[clientX |-> 100 + dx, clientY |-> 100 + dy]>> :
     dx \in {-60, -40, -39, 0, 39, 40, 60}, dy \in {-60, 0, 40, 41}}
  \cup {<<[clientX |-> 160, clientY |-> 100], [clientX |-> 200, clientY |-> 100]>>}

\* an action of the user that may start an image load waits while
\* MaxImgLoads loads are unsettled
MayLoad == BagCardinality(els.imageLoads) < MaxImgLoads

InitViewer == InitLayout

ThumbTap ==
  /\ ~state.viewer.isOpen
  /\ MayLoad
  /\ \E t \in ThumbTargets(World) : Become(thumbClick(World, t[1], t[2]))
  /\ UNCHANGED hist

\* a click on the close button or on the backdrop
CloseTap ==
  /\ state.viewer.isOpen
  /\ Become(closeViewer(World))
  /\ UNCHANGED hist

PrevTap ==
  /\ state.viewer.isOpen
  /\ MayLoad
  /\ Become(prevImage(World))
  /\ UNCHANGED hist

NextTap ==
  /\ state.viewer.isOpen
  /\ MayLoad
  /\ Become(nextImage(World))
  /\ UNCHANGED hist

\* a click on the loading / retry label
RetryTap ==
  /\ state.viewer.isOpen
  /\ ~els.viewerLoadingHidden
  /\ MayLoad
  /\ Become(renderViewerImage(World))
  /\ UNCHANGED hist

TouchStartEvt ==
  /\ state.viewer.isOpen
  /\ \E touches \in TouchStarts : Become(touchStart(World, touches))
  /\ UNCHANGED hist

TouchEndEvt ==
  /\ state.viewer.isOpen
  /\ MayLoad
  /\ \E changedTouches \in TouchEnds : Become(touchEnd(World, changedTouches))
  /\ UNCHANGED hist

\* an image load settles with success
ImageLoaded ==
  /\ \E url \in BagToSet(els.imageLoads) :
       Become(imgOnload([World EXCEPT !.el.imageLoads = @ (-) SetToBag({url})], url))
  /\ UNCHANGED hist

\* an image load settles with an error
ImageFailed ==
  /\ \E url \in BagToSet(els.imageLoads) :
       Become(imgOnerror([World EXCEPT !.el.imageLoads = @ (-) SetToBag({url})], url))
  /\ UNCHANGED hist

NextViewerSide ==
  \/ ThumbTap
  \/ CloseTap
  \/ PrevTap
  \/ NextTap
  \/ RetryTap
  \/ TouchStartEvt
  \/ TouchEndEvt
  \/ ImageLoaded
  \/ ImageFailed

\* the first page arrives
FirstPage ==
  /\ state.groups = <<>>
  /\ LayoutResolves

NextViewer == NextViewerSide \/ FirstPage

SpecViewer == InitViewer /\ [][NextViewer]_vars

-----------------------------------------------------------------------------
(* The list under an open viewer: the user opens the viewer on the second
   thumbnail of the third card and leaves it open, and the list goes through
   its loads, failures, month changes, scrolls and resizes underneath. *)

SecondThumbTap ==
  /\ ~state.viewer.isOpen
  /\ 2 \in els.rendered.from..els.rendered.to
  /\ Len(state.groups[3].image_urls) >= 2
  /\ Become(thumbClick(World, 2, 1))
  /\ UNCHANGED hist

NextListSide ==
  \/ LayoutScroll
  \/ LayoutResize
  \/ LayoutMonthChange
  \/ LayoutResolves
  \/ FetchRejects

NextViewerOverList == SecondThumbTap \/ ImageLoaded \/ NextListSide

SpecViewerOverList == InitViewer /\ [][NextViewerOverList]_vars

-----------------------------------------------------------------------------
(* The fetch controller with a network that answers: every fetch in flight
   eventually resolves or rejects.  The run stops issuing fetches after
   MaxReq of them, so that the last one is still answered. *)

NextLive ==
  \/ LayoutScroll /\ nextId' <= MaxReq + 1
  \/ LayoutResize
  \/ LayoutMonthChange /\ nextId' <= MaxReq + 1
  \/ LayoutResolves
  \/ FetchRejects

\* the fetch in flight is answered: a LayoutResolves or a FetchRejects step,
\* the only steps that take a fetch out of the set in flight
Answered == requests # {} /\ requests' = {}

SpecLive == InitLayout /\ [][NextLive]_vars /\ WF_requests(Answered)

-----------------------------------------------------------------------------
(* The sidebar script, web_sales_mobile.js: a program of its own.  In
   SpecSwipe the variable state holds the closure variable tracking of
   bindSwipeOpenSidebar, els the events dispatched on window, and hist
     start : the start event that set tracking,
     move  : the point of the last move event,
     fires : the ws-open-sidebar events dispatched since the last end or
             cancel event. *)

\* tracking = null
NoTracking == [isNull |-> TRUE]

\* a touch list without a touch
NoPoint == [isNull |-> TRUE]

NoEvent == [isNull |-> TRUE]

\* elements a gesture can start on
SwipeTargets ==
  {[tagName |-> "DIV", isContentEditable |-> FALSE],
   [tagName |-> "INPUT", isContentEditable |-> FALSE],
   [tagName |-> "DIV", isContentEditable |-> TRUE]}

\* points of start events: at the edge, on the 20 px line, past it
StartPoints ==
  {[isNull |-> FALSE, clientX |-> x, clientY |-> y] : x \in {0, 10, 20, 21}, y \in {0, 100}}

\* points of move events
MovePoints ==
  {[isNull |-> FALSE, clientX |-> x, clientY |-> y] : x \in {10, 79, 80, 90}, y \in {0, 100, 200}}

StartEvents ==
  {[isPrimary |-> p, target |-> t, point |-> pt] :
     p \in BOOLEAN, t \in SwipeTargets, pt \in StartPoints \cup {NoPoint}}

MoveEvents == {[point |-> pt] : pt \in MovePoints \cup {NoPoint}}

isEditableTarget(target) ==
  \/ target.tagName = "INPUT"
  \/ target.tagName = "TEXTAREA"
  \/ target.tagName = "SELECT"
  \/ target.isContentEditable

\* window.dispatchEvent(new CustomEvent(name))
dispatch(t, name) == [t EXCEPT !.dispatched = Append(@, name)]

onStart(t, ev) ==
  IF ev.isPrimary = FALSE THEN t
  ELSE IF isEditableTarget(ev.target) THEN t
  ELSE IF ev.point.isNull THEN t
  ELSE IF ev.point.clientX > EDGE_OPEN_PX THEN t
  ELSE [t EXCEPT !.tracking = [isNull |-> FALSE, x |-> ev.point.clientX,
                               y |-> ev.point.clientY, fired |-> FALSE]]

onMove(t, ev) ==
  IF t.tracking.isNull THEN t
  ELSE IF t.tracking.fired THEN t
  ELSE IF ev.point.isNull THEN t
  ELSE LET dx == ev.point.clientX - t.tracking.x
           dy == ev.point.clientY - t.tracking.y
       IN IF Abs(dy) > TRIGGER_DY /\ Abs(dy) > Abs(dx) THEN t
          ELSE IF dx < TRIGGER_DX THEN t
          ELSE dispatch([t EXCEPT !.tracking.fired = TRUE], "ws-open-sidebar")

onEnd(t) == [t EXCEPT !.tracking = NoTracking]

\* the script's closure and the window's event log
Swipe == [tracking |-> state.tracking, dispatched |-> els.dispatched]

BecomeSwipe(t) ==
  /\ state' = [tracking |-> t.tracking]
  /\ els' = [dispatched |-> t.dispatched]
  /\ UNCHANGED <<requests, rafQueue, nextId>>

InitSwipe ==
  /\ state = [tracking |-> NoTracking]
  /\ els = [dispatched |-> <<>>]
  /\ requests = {}
  /\ rafQueue = <<>>
  /\ nextId = 1
  /\ hist = [start |-> NoEvent, move |-> NoPoint, fires |-> 0]

\* pointerdown / touchstart
SwipeStart ==
  \E ev \in StartEvents :
    LET accepted == ~onStart([Swipe EXCEPT !.tracking = NoTracking], ev).tracking.isNull
    IN /\ BecomeSwipe(onStart(Swipe, ev))
       /\ hist' = IF accepted THEN [hist EXCEPT !.start = ev] ELSE hist

\* pointermove / touchmove
SwipeMove ==
  \E ev \in MoveEvents :
    LET t == onMove(Swipe, ev)
    IN /\ Len(els.dispatched) < MaxDispatch
       /\ BecomeSwipe(t)
       /\ hist' = [hist EXCEPT !.move = ev.point,
                               !.fires = @ + Len(t.dispatched) - Len(els.dispatched)]

\* pointerup / pointercancel / touchend / touchcancel
SwipeEnd ==
  /\ BecomeSwipe(onEnd(Swipe))
  /\ hist' = [hist EXCEPT !.start = NoEvent, !.fires = 0]

NextSwipe == SwipeStart \/ SwipeMove \/ SwipeEnd

SpecSwipe == InitSwipe /\ [][NextSwipe]_vars

-----------------------------------------------------------------------------
(* Steps, as seen from the state before and the state after *)

\* the fetch r has settled in this step: its handlers have run
Settled(r) ==
  /\ r \in requests
  /\ \A q \in requests' : q.id # r.id

\* ... with a rejection that was no abort: the catch handler showed its toast
Failed(r) == Settled(r) /\ ~r.aborted /\ els'.toasts # <<>>

\* ... with a successful response
Succeeded(r) == Settled(r) /\ ~r.aborted /\ els'.toasts = <<>>

\* the month picker's change handler has run for a month
MonthChanged ==
  els'.monthPicker # els.monthPicker /\ els'.monthPicker # ""

\* container widths to evaluate the height formula at: around the width
\* where the thumbnail reaches its minimum size, and those of the viewports
ProbeWidths == {0, 31, 215, 216, 217, 219} \cup {vp.w : vp \in Viewports}

\* the height computeItemHeight gives the group at the container width
ItemHeightAt(group, width) ==
  computeItemHeight(group, [World EXCEPT !.el.clientWidth = width])

\* an animation frame has run: the queue of callbacks is emptied
FrameRan == rafQueue # <<>> /\ rafQueue' = <<>>

\* the callbacks cb waiting in the queue q: each runs in the next frame
CallbacksOf(q, cb) == Cardinality({i \in 1..Len(q) : q[i] = cb})

\* the reportFirstRender callbacks waiting in the queue q
FirstRenderRequests(q) == Cardinality({i \in 1..Len(q) : q[i] = "reportFirstRender"})

\* what the viewer shows: the image, the loading / retry label
ViewerDisplay(el) ==
  [src |-> el.viewerImageSrc, imageHidden |-> el.viewerImageHidden,
   loadingText |-> el.viewerLoadingText, loadingHidden |-> el.viewerLoadingHidden]

RECURSIVE nextTimes(_, _)
\* k calls of nextImage
nextTimes(w, k) == IF k = 0 THEN w ELSE nextTimes(nextImage(w), k - 1)

RECURSIVE prevTimes(_, _)
\* k calls of prevImage
prevTimes(w, k) == IF k = 0 THEN w ELSE prevTimes(prevImage(w), k - 1)

\* the displacement of the gesture that ends with changedTouches
GestureDx(changedTouches) == changedTouches[1].clientX - state.viewer.touchStartX
GestureDy(changedTouches) == changedTouches[1].clientY - state.viewer.touchStartY

\* the fetches in flight that no abort has superseded
Unsuperseded(rq) == {r \in rq : ~r.aborted}

\* the list fields of state when the fetch r was issued: the copies its
\* handlers hold, and the page number its URL carries
IssuedAt(r) ==
  [groups |-> r.preserveGroups, heights |-> r.preserveHeights,
   offsets |-> r.preserveOffsets, totalHeight |-> r.preserveTotalHeight,
   total |-> r.preserveTotal, pageNum |-> r.url.page_num]

RECURSIVE SumTo(_, _)
\* seq[1] + ... + seq[i]
SumTo(seq, i) == IF i <= 0 THEN 0 ELSE seq[i] + SumTo(seq, i - 1)

\* the heights of the groups at the container width of el
HeightsAt(groups, el) ==
  [i \in 1..Len(groups) |-> computeItemHeight(groups[i], [el |-> el])]

\* heights, offsets and totalHeight are the layout of groups at the width of el
IsLayoutAt(fields, el) ==
  /\ fields.heights = HeightsAt(fields.groups, el)
  /\ fields.offsets = [i \in 1..Len(fields.groups) |-> SumTo(fields.heights, i - 1)]
  /\ fields.totalHeight = SumTo(fields.heights, Len(fields.groups))

\* the group at 0-based index i covers the pixel p
Covers(i, p) ==
  state.offsets[i + 1] <= p /\ p < state.offsets[i + 1] + state.heights[i + 1]

\* the index the specification's locate(p) names, for a non-empty table
Locate(p) ==
  LET n == Len(state.groups)
  IN IF p < 0 THEN 0
     ELSE IF p >= state.totalHeight THEN n - 1
     ELSE CHOOSE i \in 0..(n - 1) : Covers(i, p)

\* probe values around every boundary of the table, before it and past it
Probes ==
  {-1, 0, state.totalHeight - 1, state.totalHeight, state.totalHeight + 1,
   state.totalHeight + lookAheadPx}
  \cup UNION {{state.offsets[i] - 1, state.offsets[i], state.offsets[i] + 1,
               state.offsets[i] + state.heights[i] - 1} : i \in 1..Len(state.offsets)}

\* scroll offsets: the last pixel of every group, the top, and past the end
ScrollProbes ==
  {0, state.totalHeight + lookAheadPx}
  \cup {state.offsets[i] + state.heights[i] - 1 : i \in 1..Len(state.offsets)}

\* viewport heights: none, and those of the viewports
ViewHeights == {0} \cup {vp.h : vp \in Viewports}

\* the window renderVirtual resolves for scroll offset s and viewport height h
WindowAt(s, h) ==
  renderVirtual([World EXCEPT !.el.scrollTop = s, !.el.clientHeight = h]).el.rendered

-----------------------------------------------------------------------------
(* Claims *)

\* C1: a month change that arrives while a load-more is pending supersedes
\* it: the pending fetch is aborted, so that its response is never applied,
\* and a page-1 request for the new month is in flight.
C1_ResetSupersedesPendingLoadMore ==
  [][(MonthChanged /\ \E r \in Unsuperseded(requests) : ~r.reset)
       => /\ \A r \in Unsuperseded(requests) :
               \E q \in requests' : q.id = r.id /\ q.aborted
          /\ \E q \in Unsuperseded(requests') :
               /\ q.reset
               /\ q.url.report_month = state'.reportMonth
               /\ q.url.page_num = 1]_vars

\* C2: at most one fetch is in flight and not superseded, and only the fetch
\* issued last can be it: every earlier one still in flight has been aborted.
C2_AtMostOneUnsuperseded ==
  /\ Cardinality(Unsuperseded(requests)) <= 1
  /\ \A r \in requests : r.id < nextId - 1 => r.aborted

\* a later fetch (not the initial load) is in flight while the controller
\* is loading
C2_Witness ==
  \E r \in Unsuperseded(requests) : r.id >= 2 /\ state.isLoading

\* C3 (as stated): after a failed load-more the list fields (groups, heights,
\* offsets, totalHeight, total, pageNum) equal those at the moment the
\* request was issued.
C3_FailedLoadMoreRestoresAll ==
  [][\A r \in requests :
       (Failed(r) /\ ~r.reset) => ListFields([st |-> state']) = IssuedAt(r)]_vars

\* C3 (amended): after a failed load-more, groups, total and pageNum equal
\* those at the moment the request was issued, and heights, offsets and
\* totalHeight are the layout of those groups at the container width of the
\* moment of the failure; they equal the ones at issue when those were
\* computed at that width.
C3_FailedLoadMoreRollsBack ==
  [][\A r \in requests :
       (Failed(r) /\ ~r.reset) =>
         /\ state'.groups = r.preserveGroups
         /\ state'.total = r.preserveTotal
         /\ state'.pageNum = r.url.page_num
         /\ IsLayoutAt(ListFields([st |-> state']), els')
         /\ (r.preserveHeights = HeightsAt(r.preserveGroups, els')
               => ListFields([st |-> state']) = IssuedAt(r))]_vars

\* a load-more has just failed after the month was changed under it: the
\* rollback has brought back the groups the change had cleared
C3_Witness ==
  /\ els.toasts = <<"load failed">>
  /\ state.pageNum >= 2
  /\ state.groups # <<>>
  /\ state.groups[1].report_date[1] # state.reportMonth

\* C4: when the reset request of a month change fails, groups, heights,
\* offsets, totalHeight and total are again what they were before the change
\* cleared them.
C4_FailedResetRestoresBeforeChange ==
  [][\A r \in requests :
       (Failed(r) /\ r.reset /\ hist.changeRid = r.id) =>
         /\ state'.groups = hist.before.groups
         /\ state'.heights = hist.before.heights
         /\ state'.offsets = hist.before.offsets
         /\ state'.totalHeight = hist.before.totalHeight
         /\ state'.total = hist.before.total]_vars

\* C5: the layout table is aligned with the groups: heights and offsets have
\* one entry per group, offsets[0] = 0, offsets[i] = offsets[i-1] +
\* heights[i-1], and totalHeight is the sum of the heights (0 without groups).
C5_LayoutAligned ==
  LET n == Len(state.groups)
  IN /\ Len(state.heights) = n
     /\ Len(state.offsets) = n
     /\ \A i \in 1..n :
          state.offsets[i] = IF i = 1 THEN 0
                             ELSE state.offsets[i - 1] + state.heights[i - 1]
     /\ state.totalHeight = SumTo(state.heights, n)

\* a page has been appended after a resize: the table holds heights of two
\* widths and more groups than one page
C5_Witness ==
  /\ Len(state.groups) > pageSize
  /\ \E i, j \in 1..Len(state.groups) :
       /\ Len(state.groups[i].image_urls) = Len(state.groups[j].image_urls)
       /\ state.heights[i] # state.heights[j]

\* C6: on a table of positive heights, findIndexByScrollTop(probe) is the one
\* index i with offsets[i] <= probe < offsets[i] + heights[i] when
\* 0 <= probe < totalHeight, 0 for a probe below 0 and n-1 for a probe at or
\* past totalHeight; on an empty table it is 0.
C6_FindIndexLocates ==
  LET n == Len(state.groups)
  IN (\A i \in 1..Len(state.heights) : state.heights[i] > 0) =>
       \A p \in Probes :
         LET ans == findIndexByScrollTop(World, p)
         IN IF n = 0 THEN ans = 0
            ELSE IF p < 0 THEN ans = 0
            ELSE IF p >= state.totalHeight THEN ans = n - 1
            ELSE /\ ans \in 0..(n - 1)
                 /\ Covers(ans, p)
                 /\ \A j \in 0..(n - 1) : Covers(j, p) => j = ans

\* two pages of groups with heights of several sizes have been laid out and
\* rendered through the search
C6_Witness ==
  /\ Len(state.groups) >= 2 * pageSize
  /\ Cardinality({state.heights[i] : i \in 1..Len(state.heights)}) >= 3
  /\ els.rendered.to >= els.rendered.from

\* C7: for every scroll offset s >= 0 and viewport height h on a non-empty
\* table, renderVirtual resolves from = max(0, locate(max(0, s - 200)) - 6)
\* and to = min(n - 1, locate(s + h + 400) + 6), with 0 <= from <= to <= n-1,
\* every group that intersects [s, s + h) inside [from, to], and the block
\* translated by offsets[from]; what is materialised is always such a range.
C7_WindowCoversViewport ==
  LET n == Len(state.groups)
  IN /\ n > 0 =>
          \A s \in ScrollProbes, h \in ViewHeights :
            LET win == WindowAt(s, h)
            IN /\ win.from = Max(0, Locate(Max(0, s - lookBehindPx)) - overscan)
               /\ win.to = Min(n - 1, Locate(s + h + lookAheadPx) + overscan)
               /\ 0 <= win.from /\ win.from <= win.to /\ win.to <= n - 1
               /\ \A i \in 0..(n - 1) :
                    (state.offsets[i + 1] < s + h
                       /\ state.offsets[i + 1] + state.heights[i + 1] > s)
                      => (win.from <= i /\ i <= win.to)
               /\ win.offsetY = state.offsets[win.from + 1]
     /\ IF n = 0 THEN els.rendered.to < els.rendered.from
        ELSE els.rendered.to >= els.rendered.from =>
               /\ 0 <= els.rendered.from /\ els.rendered.to <= n - 1
               /\ els.rendered.offsetY = state.offsets[els.rendered.from + 1]

\* the list is scrolled down and only a window of it is materialised: groups
\* before the window are left out
C7_Witness ==
  /\ els.scrollTop > 0
  /\ els.rendered.from > 0
  /\ els.rendered.to >= els.rendered.from
  /\ els.rendered.offsetY > 0
\* C8: with a server that reports one total per filter and returns each page
\* as the slice of that filter's groups, groups.length <= total in every
\* reachable state.
C8_GroupsWithinTotal ==
  Len(state.groups) <= state.total

\* C9: when a successful response has been applied and leaves
\* groups.length >= total (total = 0 with an empty list included), the page
\* counter is not incremented, else it is incremented by exactly 1; and while
\* groups.length >= total after an applied response, no step but a month
\* change issues a request.
C9_AllLoadedStopsPaging ==
  [][/\ \A r \in requests :
          Succeeded(r) =>
            IF Len(state'.groups) >= state'.total
            THEN state'.pageNum = state.pageNum
            ELSE state'.pageNum = state.pageNum + 1
     /\ (hist.k > 0 /\ Len(state.groups) >= state.total /\ ~MonthChanged)
          => nextId' = nextId]_vars

\* C10: under a fixed filter with server total T > 0, without failures, the
\* k-th successful fetch after the reset asked for page k with page size P
\* and leaves groups.length = min(k * P, T); the fetch number ceil(T / P)
\* leaves groups.length = T with the list all loaded (the end-of-list footer
\* shown, the page counter left alone), and from then on no step but a month
\* change issues a request.
C10_FixedFilterPagination ==
  [][LET T == ServerTotal(state.reportMonth)
         last == CeilDiv(T, pageSize)
         k == hist.k + 1
     IN (hist.clean /\ T > 0) =>
          /\ \A r \in requests :
               Succeeded(r) =>
                 /\ r.url.page_num = k
                 /\ r.url.page_size = pageSize
                 /\ r.reset = (k = 1)
                 /\ state'.total = T
                 /\ Len(state'.groups) = Min(k * pageSize, T)
                 /\ state'.groups = [i \in 1..Min(k * pageSize, T) |->
                                       ServerGroup(state.reportMonth, i)]
                 /\ IF k >= last
                    THEN /\ Len(state'.groups) = T
                         /\ els'.noMoreVisible
                         /\ state'.pageNum = k
                    ELSE /\ ~els'.noMoreVisible
                         /\ state'.pageNum = k + 1
          /\ (hist.k >= last /\ ~MonthChanged) =>
               /\ nextId' = nextId
               /\ requests' = requests
               /\ state'.groups = state.groups]_vars

\* the three pages of 25 groups have been fetched under one filter, the list
\* is all loaded and scrolled to its end, and no fetch is in flight
C10_Witness ==
  /\ hist.clean
  /\ hist.k = CeilDiv(TotalA, pageSize)
  /\ hist.k = 3
  /\ state.reportMonth = MonthA
  /\ Len(state.groups) = TotalA
  /\ els.noMoreVisible
  /\ els.scrollTop > 0
  /\ rafQueue = <<>>
  /\ requests = {}
\* C11: a handleScroll that runs while a request is in flight is a no-op for
\* the list: it issues no request and leaves groups, heights, offsets,
\* totalHeight, total, pageNum and isLoading as they are; no two requests in
\* flight ask for the same page.
C11_ScrollWhileLoadingIsNoOp ==
  [][(/\ Unsuperseded(requests) # {}
      /\ rafQueue # <<>>
      /\ \E i \in 1..Len(rafQueue) : rafQueue[i] = "handleScroll"
      /\ rafQueue' = <<>>)
       => /\ nextId' = nextId
          /\ requests' = requests
          /\ ListFields([st |-> state']) = ListFields([st |-> state])
          /\ state'.isLoading = state.isLoading
          /\ \A r1, r2 \in requests' : r1.url = r2.url => r1.id = r2.id]_vars

\* a scroll to the bottom of a list that is not all loaded waits for its
\* frame while the load-more it would ask for is already in flight
C11_Witness ==
  /\ \E r \in Unsuperseded(requests) : ~r.reset /\ r.url.page_num = state.pageNum
  /\ state.isLoading
  /\ rafQueue # <<>>
  /\ Head(rafQueue) = "handleScroll"
  /\ ~isAllLoaded(World)
  /\ state.totalHeight - (els.scrollTop + els.clientHeight) < threshold
\* C13: an image load that settles when the viewer is closed, or for a URL
\* that is not the one of the current index, changes nothing of what the
\* viewer shows; an image shown by the open viewer is the one of the current
\* index.
C13_StaleImageLoadDiscarded ==
  [][/\ \A url \in BagToSet(els.imageLoads) :
          (/\ els'.imageLoads = els.imageLoads (-) SetToBag({url})
           /\ (~state.viewer.isOpen
                 \/ url # Get(state.viewer.images, state.viewer.index)))
            => ViewerDisplay(els') = ViewerDisplay(els)
     /\ (state'.viewer.isOpen /\ ~els'.viewerImageHidden)
          => els'.viewerImageSrc = Get(state'.viewer.images, state'.viewer.index)]_vars

\* C14: with N >= 1 images, nextImage takes index i to (i + 1) mod N and
\* prevImage to (i - 1 + N) mod N; N calls of either come back to i,
\* nextImage then prevImage is the identity on the index, and with N = 1
\* both leave the index where it is.  Neither changes the images.
C14_NavigationCycles ==
  LET N == Len(state.viewer.images)
      i == state.viewer.index
  IN N >= 1 =>
       /\ nextImage(World).st.viewer.index = (i + 1) % N
       /\ prevImage(World).st.viewer.index = (i - 1 + N) % N
       /\ nextTimes(World, N).st.viewer.index = i
       /\ prevTimes(World, N).st.viewer.index = i
       /\ \A k \in 1..(N - 1) : nextTimes(World, k).st.viewer.index # i
       /\ prevImage(nextImage(World)).st.viewer.index = i
       /\ nextImage(prevImage(World)).st.viewer.index = i
       /\ N = 1 => /\ nextImage(World).st.viewer.index = i
                   /\ prevImage(World).st.viewer.index = i
       /\ nextImage(World).st.viewer.images = state.viewer.images
       /\ prevImage(World).st.viewer.images = state.viewer.images

\* the viewer is open on three images and has been taken to the last one
C14_Witness ==
  /\ state.viewer.isOpen
  /\ Len(state.viewer.images) = 3
  /\ state.viewer.index = 2
  /\ els.viewerIndexText = <<3, 3>>

\* C15: openViewer(urls, startIndex) on the images of a rendered card sets
\* isOpen, stores the sequence and clamps startIndex into 0..N-1; and in
\* every reachable state with the viewer open, 0 <= index < images.length.
C15_IndexInRange ==
  /\ state.viewer.isOpen =>
       /\ 0 <= state.viewer.index
       /\ state.viewer.index < Len(state.viewer.images)
  /\ \A t \in ThumbTargets(World) :
       LET urls == state.groups[t[1] + 1].image_urls
           N == Len(urls)
       IN \A startIndex \in -1..(N + 1) :
            LET v == openViewer(World, urls, startIndex).st.viewer
            IN /\ v.isOpen
               /\ v.images = urls
               /\ v.index = IF startIndex < 0 THEN 0
                            ELSE IF startIndex > N - 1 THEN N - 1
                            ELSE startIndex
               /\ v.index \in 0..(N - 1)

\* the viewer is open on the last of three images after a touch gesture
C15_Witness ==
  /\ state.viewer.isOpen
  /\ Len(state.viewer.images) = 3
  /\ state.viewer.index = Len(state.viewer.images) - 1
  /\ state.viewer.touchStartX # 0

\* C16: while the viewer is open, no event of the list (a page appended, a
\* reset applied, a failure rolled back, a month change, a scroll, a resize)
\* changes the viewer's images or index, nor closes it.
C16_ListLeavesViewerAlone ==
  [][(state.viewer.isOpen /\ NextListSide)
       => /\ state'.viewer.images = state.viewer.images
          /\ state'.viewer.index = state.viewer.index
          /\ state'.viewer.isOpen]_vars

\* the viewer was opened on a card of the first month and is still open on
\* its second image, while the list shows the groups of another month
C16_Witness ==
  /\ state.viewer.isOpen
  /\ state.viewer.index = 1
  /\ state.viewer.images = ServerGroup(MonthA, 3).image_urls
  /\ state.reportMonth # MonthA
  /\ state.groups # <<>>
  /\ state.groups[1].report_date[1] = state.reportMonth

\* C17: closeViewer resets the viewer: after it isOpen is false, the
\* displayed image reference is released, and images and index are reset.
C17_CloseResetsViewer ==
  [][(state.viewer.isOpen /\ ~state'.viewer.isOpen)
       => /\ els'.viewerImageSrc = NoUrl
          /\ state'.viewer.images = <<>>
          /\ state'.viewer.index = 0]_vars

\* C18 (as stated): a one-finger gesture navigates only if |dx| > 40 and
\* |dx| > |dy|: then dx > 0 is prevImage and dx < 0 is nextImage; any other
\* gesture leaves the index unchanged.
C18_SwipeStrict ==
  state.viewer.isOpen =>
    \A changedTouches \in {t \in TouchEnds : Len(t) = 1} :
      LET dx == GestureDx(changedTouches)
          dy == GestureDy(changedTouches)
          after == touchEnd(World, changedTouches)
      IN IF Abs(dx) > swipeMin /\ Abs(dx) > Abs(dy)
         THEN after = IF dx > 0 THEN prevImage(World) ELSE nextImage(World)
         ELSE after.st.viewer.index = state.viewer.index

\* C18 (amended): a one-finger gesture navigates if and only if |dx| >= 40
\* and |dx| >= |dy|: then dx > 0 is prevImage and dx < 0 is nextImage; any
\* other gesture, and any gesture of several fingers, changes nothing.
C18_SwipeNavigates ==
  state.viewer.isOpen =>
    \A changedTouches \in TouchEnds :
      LET dx == GestureDx(changedTouches)
          dy == GestureDy(changedTouches)
          after == touchEnd(World, changedTouches)
      IN IF Len(changedTouches) = 1 /\ Abs(dx) >= swipeMin /\ Abs(dx) >= Abs(dy)
         THEN /\ after = IF dx > 0 THEN prevImage(World) ELSE nextImage(World)
              /\ after # World
         ELSE after = World

\* a finger has touched the viewer, and the viewer, open on three images, is
\* loading the last one after a navigation
C18_Witness ==
  /\ state.viewer.isOpen
  /\ state.viewer.touchStartX = 100
  /\ state.viewer.touchStartY = 100
  /\ Len(state.viewer.images) = 3
  /\ state.viewer.index = 2
  /\ ~els.viewerLoadingHidden
  /\ els.viewerLoadingText = "loading"
\* C19: without a category code no request is ever issued, by the initial
\* load, a month change or a scroll, and the controller is never loading.
C19_NoCategoryNoRequest ==
  state.categoryCode = "" =>
    /\ requests = {}
    /\ nextId = 1
    /\ ~state.isLoading
    /\ ~els.spinner
    /\ state.abortController = 0

\* without a category code the month has been changed: the change handler
\* has only reported the missing category
C19_Witness ==
  /\ state.categoryCode = ""
  /\ state.reportMonth # MonthA
  /\ rafQueue = <<>>
  /\ els.toasts = <<"missing category">>
  /\ els.monthPicker = state.reportMonth

\* C20: without a category code the configuration error is shown once, by
\* the initial load: no later trigger (month change, scroll) shows it again.
C20_ConfigErrorShownOnce ==
  [][state.categoryCode = "" => els'.toasts = <<>>]_vars
\* C21 (as stated): every successful reset load requests one emission of the
\* first-render signal and an append load none, and the frame that follows
\* emits the signal once for every request.
C21_OneEmissionPerReset ==
  [][/\ \A r \in requests :
          Succeeded(r) =>
            /\ rafQueue' = IF r.reset THEN Append(rafQueue, "reportFirstRender")
                           ELSE rafQueue
            /\ els'.firstRenderLogs = els.firstRenderLogs
     /\ FrameRan =>
          els'.firstRenderLogs = els.firstRenderLogs + FirstRenderRequests(rafQueue)]_vars

\* C21 (amended): the first-render signal is emitted once per page: the frame
\* after the first successful reset load emits it, and no later reset load,
\* append load or other event emits it again.
C21_FirstRenderOnce ==
  [][/\ \A r \in requests :
          Succeeded(r) =>
            /\ rafQueue' = IF r.reset THEN Append(rafQueue, "reportFirstRender")
                           ELSE rafQueue
            /\ els'.firstRenderLogs = els.firstRenderLogs
     /\ els'.firstRenderLogs =
          IF FrameRan /\ FirstRenderRequests(rafQueue) > 0 /\ els.firstRenderLogs = 0
          THEN 1
          ELSE els.firstRenderLogs
     /\ els'.firstRenderLogs <= 1
     /\ state'.firstRenderReported = (els'.firstRenderLogs = 1)]_vars

\* the reset load of a later month has succeeded and its frame has run: the
\* signal of the initial load is still the only one
C21_Witness ==
  /\ els.firstRenderLogs = 1
  /\ state.reportMonth # MonthA
  /\ state.groups # <<>>
  /\ state.groups[1].report_date[1] = state.reportMonth
  /\ hist.clean
  /\ hist.k >= 1
  /\ rafQueue = <<>>
  /\ requests = {}
\* C22 (as stated): at container width 375 and gap 8 a group with 7 images
\* has 3 rows of thumbnails of edge 119, and a group without images 1 row.
C22_ThumbEdge119 ==
  \A i \in 1..Len(state.groups) :
    LET k == Len(state.groups[i].image_urls)
    IN /\ k = 7 => ItemHeightAt(state.groups[i], 375) = 16 + 24 + 12 + (3 * 119 + 2 * gap) + 16
       /\ k = 0 => ItemHeightAt(state.groups[i], 375) = 16 + 24 + 12 + 119 + 16

\* C22 (amended): the item height of a group with k images is
\* 68 + rows * thumb + (rows - 1) * gap with rows = max(1, ceil(k / 3)) and
\* thumb = max(56, floor((contentWidth - 2 * gap) / 3)), where contentWidth
\* is the container width less 32, not below 0; at container width 375 a
\* group with 7 images has 3 rows of edge 109 (height 411) and a group
\* without images 1 row (height 177).
C22_ItemHeightFormula ==
  \A i \in 1..Len(state.groups) :
    LET k == Len(state.groups[i].image_urls)
        rows == IF k = 0 THEN 1 ELSE (k + 2) \div 3
    IN /\ \A width \in ProbeWidths :
            LET contentWidth == IF width > 32 THEN width - 32 ELSE 0
                third == (contentWidth - 2 * gap) \div 3
                thumb == IF third < 56 THEN 56 ELSE third
            IN ItemHeightAt(state.groups[i], width)
                 = 68 + rows * thumb + (rows - 1) * gap
       /\ k = 7 => ItemHeightAt(state.groups[i], 375) = 68 + 3 * 109 + 2 * 8
       /\ k = 0 => ItemHeightAt(state.groups[i], 375) = 68 + 109
       /\ k = 7 => ItemHeightAt(state.groups[i], 216) = 68 + 3 * 56 + 2 * 8

\* at container width 375 the list holds a group with 7 images laid out at
\* height 411 and a group without images laid out at height 177
C22_Witness ==
  /\ els.clientWidth = 375
  /\ \E i, j \in 1..Len(state.groups) :
       /\ Len(state.groups[i].image_urls) = 7
       /\ state.heights[i] = 411
       /\ Len(state.groups[j].image_urls) = 0
       /\ state.heights[j] = 177
\* C23: scroll and resize are throttled to one run per frame: however many
\* events arrive before an animation frame, at most one handleScroll and at
\* most one renderVirtual callback wait for it.
C23_OneHandlerRunPerFrame ==
  /\ CallbacksOf(rafQueue, "handleScroll") <= 1
  /\ CallbacksOf(rafQueue, "renderVirtual") <= 1
\* C24: the controller goes Idle -> Loading -> Idle: isLoading is true
\* exactly while a fetch is in flight, an idle controller issues a request on
\* a month change, and, every fetch being answered, a loading controller
\* eventually is idle again with isLoading false.
C24_LoadingReturnsToIdle ==
  /\ [](state.isLoading <=> requests # {})
  /\ [](state.isLoading <=> state.abortController # 0)
  /\ [](~state.isLoading =>
          \A val \in Months :
            LET w == monthChange(World, val)
            IN w.nid = nextId + 1 /\ w.st.isLoading)
  /\ (state.isLoading ~> (~state.isLoading /\ requests = {}))

\* the controller is idle again after a failed and a later request
C24_Witness ==
  /\ ~state.isLoading
  /\ requests = {}
  /\ ~els.spinner
  /\ ~hist.clean
  /\ nextId >= 3
\* C25: whenever the controller is idle, every group in the list comes from a
\* response to a request issued for the selected month: the list holds no
\* group of a month other than state.reportMonth.
C25_IdleListIsOfSelectedMonth ==
  (~state.isLoading /\ requests = {}) =>
    \A i \in 1..Len(state.groups) :
      state.groups[i].report_date[1] = state.reportMonth
\* C26: once a resize that changes the container width has been processed,
\* and after any append that follows, heights, offsets and totalHeight are the
\* layout of all loaded groups at the current width.
C26_ResizeRelayouts ==
  [][(els'.clientWidth # els.clientWidth \/ Len(state'.groups) > Len(state.groups))
       => IsLayoutAt(ListFields([st |-> state']), els')]_vars
\* C27: ws-open-sidebar is dispatched only while a gesture is tracked whose
\* start was within EDGE_OPEN_PX of the left edge on a non-editable target,
\* only by a move at least TRIGGER_DX to the right of the start that is not
\* vertical-dominant, and at most once between a start and the end or cancel
\* event that follows it.
C27_OpenOncePerEdgeGesture ==
  [][Len(els'.dispatched) > Len(els.dispatched) =>
       /\ hist.start # NoEvent
       /\ hist.start.point.clientX <= EDGE_OPEN_PX
       /\ ~isEditableTarget(hist.start.target)
       /\ LET dx == hist'.move.clientX - hist.start.point.clientX
              dy == hist'.move.clientY - hist.start.point.clientY
          IN dx >= TRIGGER_DX /\ ~(Abs(dy) > Abs(dx))
       /\ hist'.fires <= 1]_vars

=============================================================================
